---- MODULE Spec2Model ----
(***************************************************************************)
(* Model of opencl_matrix_add.cpp: a single-threaded host program that     *)
(* fills two integer vectors with rand() values, offloads their            *)
(* element-wise addition to an OpenCL device and prints the result.        *)
(*                                                                         *)
(* The program is one linear main(); pc names the statement main() is      *)
(* about to execute.  Every libc / OpenCL call whose result the            *)
(* environment decides takes its status from a small set with \E.  The     *)
(* history variables trace, prints, failed, env and fatalAt record what    *)
(* the run did; they do not influence it.                                  *)
(***************************************************************************)
EXTENDS Integers, Sequences, FiniteSets, TLC

\* ------------------------------------------------------------------ bounds
\* Vector lengths explored: -1 .. MaxSmall and PrintLimit .. MaxLarge.
MaxSmall == 2
MaxLarge == 17
\* Contents of freshly created (uninitialised) device memory: 0 .. MaxGarbage.
MaxGarbage == 1

\* --------------------------------------------------------- program constants
PRINT == 1
PrintLimit == 15
PrintEdge == 5
RandRange == 100
CL_SUCCESS == 0
CL_DEVICE_NOT_FOUND == -1
\* Any other negative OpenCL status (CL_OUT_OF_HOST_MEMORY).
CL_OTHER_ERROR == -6
\* Exit statuses: exit(1), return 0, and death by SIGSEGV / SIGBUS.
EXIT_FAILURE_1 == 1
EXIT_OK == 0
SIGSEGV_STATUS == 139
SIGBUS_STATUS == 135

VARIABLES
    pc,          \* statement of main() about to run; "exited" when the process is gone
    SZ,          \* int SZ (line 9), set from argv[1]
    seed,        \* state of rand(): its last 31 words, oldest first, each <<high 16 bits, low 16 bits>>
    v1, v2, v_out,      \* host vectors (sequences, index i of the code is i+1 here)
    alloc,       \* host vectors whose malloc returned non-NULL
    err,         \* global int err (line 27)
    device_id,   \* "none", "GPU" or "CPU"
    created,     \* device objects successfully created and not NULL
    bound,       \* kernel argument indices successfully set
    dV1, dV2, dOut,     \* contents of the device buffers bufV1, bufV2, bufV_out
    event,       \* TRUE when the completion event is non-NULL
    env,         \* statuses the environment returned (history)
    failed,      \* steps that returned a failure (history)
    trace,       \* steps executed so far, in order (history)
    prints,      \* one record per print() call (history)
    released,    \* resources released by free_memory, in order
    nullWrite,   \* TRUE once the program stored through a NULL pointer
    fatalAt,     \* step at which the process died, "" when it has not
    exitStatus   \* process exit status, -1 while the process is alive

vars == << pc, SZ, seed, v1, v2, v_out, alloc, err, device_id, created, bound,
           dV1, dV2, dOut, event, env, failed, trace, prints,
           released, nullWrite, fatalAt, exitStatus >>

hostVars == << v1, v2, v_out, alloc, seed, nullWrite >>
devVars == << device_id, created, bound, dV1, dV2, dOut, event, err >>

\* ------------------------------------------------------------ pure helpers
Sizes == (-1 .. MaxSmall) \cup (PrintLimit .. MaxLarge)
Garbage == 0 .. MaxGarbage

\* rand() is the additive-feedback generator of the C library the program
\* links: r[i] = r[i-3] + r[i-31] modulo 2^32, returning r[i] >> 1.  A 32-bit
\* word is kept as <<high 16 bits, low 16 bits>>.
ToWord(x) == << x \div 65536, x % 65536 >>

Add32(a, b) ==
    << (a[1] + b[1] + (a[2] + b[2]) \div 65536) % 65536, (a[2] + b[2]) % 65536 >>

\* One rand() call: the state after it.
Rand(s) == Tail(s) \o << Add32(s[1], s[29]) >>

\* The value returned by the rand() call that led to state s.
RandValue(s) == s[31][1] * 32768 + s[31][2] \div 2

\* Generator state after k calls of rand() from state s (the first half of
\* the calls, then the rest).
RECURSIVE RandAfter(_, _)
RandAfter(s, k) ==
    IF k <= 0 THEN s
    ELSE IF k = 1 THEN Rand(s)
    ELSE LET t == RandAfter(s, k \div 2)
         IN  IF Len(t) = Len(s) THEN RandAfter(t, k - k \div 2) ELSE t

\* Seeding: r[i] = 16807 * r[i-1] modulo 2^31 - 1, by Schrage's method.
Lehmer(w) ==
    LET x == 16807 * (w % 127773) - 2836 * (w \div 127773)
    IN  IF x < 0 THEN x + 2147483647 ELSE x

RECURSIVE SeedWords(_, _)
SeedWords(w, k) == IF k <= 0 THEN << >> ELSE << ToWord(w) >> \o SeedWords(Lehmer(w), k - 1)

\* The generator of a process that never calls srand: seeded with 1, words
\* r[0..30] from the seed, r[31..33] = r[0..2], then 310 values discarded.
RandStart ==
    LET r == SeedWords(1, 31)
    IN  RandAfter(SubSeq(r, 4, 31) \o SubSeq(r, 1, 3), 310)

\* init's loop: A[i] = rand() % 100 for i = 0 .. size-1.
InitFill(s, size) ==
    IF size <= 0 THEN << >>
    ELSE [i \in 1 .. size |-> RandValue(RandAfter(s, i)) % RandRange]

\* for (long i = lo; i < hi; i++) printf("%d ", A[i]) : the indices read.
RECURSIVE PrintLoop(_, _)
PrintLoop(lo, hi) == IF lo < hi THEN << <<"e", lo>> >> \o PrintLoop(lo + 1, hi) ELSE << >>

PrintIdx_BadTail(size) ==
    IF PRINT = 0 THEN << >>
    ELSE IF PRINT = 1 /\ size > PrintLimit
         THEN PrintLoop(0, PrintEdge) \o << <<"ellipsis", 0>> >>
              \o PrintLoop(size - PrintEdge + 1, size)
         ELSE PrintLoop(0, size)

\* print(A, size): the items written before the separator, as code indices.
PrintIdx(size) ==
    IF PRINT = 0 THEN << >>
    ELSE IF PRINT = 1 /\ size > PrintLimit
         THEN PrintLoop(0, PrintEdge) \o << <<"ellipsis", 0>> >>
              \o PrintLoop(size - PrintEdge, size)
         ELSE PrintLoop(0, size)

\* print(A, size): the tokens written to standard output.
PrintTokens(A, size) ==
    IF PRINT = 0 THEN << >>
    ELSE [k \in 1 .. Len(PrintIdx(size)) |->
             IF PrintIdx(size)[k][1] = "e"
             THEN <<"e", A[PrintIdx(size)[k][2] + 1]>>
             ELSE PrintIdx(size)[k]]
         \o << <<"sep", 0>> >>

\* The record kept for one print() call.
PrintRec(name, A, size) ==
    [vec |-> name, size |-> size, data |-> A,
     idx |-> PrintIdx(size), toks |-> PrintTokens(A, size)]

\* exit(1) / abnormal death at step s with status st.
Die(s, st) ==
    /\ pc' = "exited"
    /\ fatalAt' = s
    /\ exitStatus' = st

Live == UNCHANGED << fatalAt, exitStatus >>

Init ==
    /\ pc = "init_v1"
    /\ SZ \in Sizes
    /\ seed = RandStart
    /\ v1 = << >> /\ v2 = << >> /\ v_out = << >>
    /\ alloc = {}
    /\ err = 0
    /\ device_id = "none"
    /\ created = {}
    /\ bound = {}
    /\ dV1 = << >> /\ dV2 = << >> /\ dOut = << >>
    /\ event = FALSE
    /\ env = [platform |-> CL_SUCCESS, gpu |-> CL_SUCCESS, cpu |-> CL_SUCCESS,
              file |-> "unopened"]
    /\ failed = {}
    /\ trace = << >>
    /\ prints = << >>
    /\ released = << >>
    /\ nullWrite = FALSE
    /\ fatalAt = ""
    /\ exitStatus = -1

\* ------------------------------------------------------------- host arrays
\* malloc(sizeof(int) * size): a negative size wraps to a request no heap can
\* serve; any other request may succeed or fail.
MallocCan(ok) == ok => SZ >= 0

\* init(A, size) stores A[0] first: with A == NULL and size >= 1 that store is
\* undefined behaviour, which the build turns into death by signal.
InitCrashes(ok) == ~ok /\ SZ >= 1

\* A store through a NULL pointer at step `step`: death by signal.
NullStore(step) ==
    /\ nullWrite' = TRUE
    /\ \E st \in {SIGSEGV_STATUS, SIGBUS_STATUS} : Die(step, st)
    /\ trace' = Append(trace, step)

\* A[0] = rand() % 100 with A == NULL: rand() is called, then the store faults.
InitCrash(step) ==
    /\ seed' = Rand(seed)
    /\ NullStore(step)
    /\ UNCHANGED << SZ, v1, v2, v_out, alloc, devVars, env, failed, prints,
                    released >>

InitDone(name, ok, next) ==
    /\ seed' = RandAfter(seed, SZ)
    /\ alloc' = IF ok THEN alloc \cup {name} ELSE alloc
    /\ pc' = next
    /\ trace' = Append(trace, "init_" \o name)
    /\ Live
    /\ UNCHANGED << SZ, nullWrite, devVars, env, failed, prints, released >>

Init_v1 ==
    /\ pc = "init_v1"
    /\ \E ok \in BOOLEAN :
        /\ MallocCan(ok)
        /\ IF InitCrashes(ok) THEN InitCrash("init_v1")
           ELSE /\ v1' = InitFill(seed, SZ)
                /\ InitDone("v1", ok, "init_v2")
                /\ UNCHANGED << v2, v_out >>

Init_v2 ==
    /\ pc = "init_v2"
    /\ \E ok \in BOOLEAN :
        /\ MallocCan(ok)
        /\ IF InitCrashes(ok) THEN InitCrash("init_v2")
           ELSE /\ v2' = InitFill(seed, SZ)
                /\ InitDone("v2", ok, "init_v_out")
                /\ UNCHANGED << v1, v_out >>

Init_v_out ==
    /\ pc = "init_v_out"
    /\ \E ok \in BOOLEAN :
        /\ MallocCan(ok)
        /\ IF InitCrashes(ok) THEN InitCrash("init_v_out")
           ELSE /\ v_out' = InitFill(seed, SZ)
                /\ InitDone("v_out", ok, "print_v1")
                /\ UNCHANGED << v1, v2 >>

\* print(A, SZ) called from main at step `step`.
PrintCall(step, name, A, next) ==
    /\ pc = step
    /\ prints' = Append(prints, PrintRec(name, A, SZ))
    /\ trace' = Append(trace, step)
    /\ pc' = next
    /\ Live
    /\ UNCHANGED << SZ, hostVars, devVars, env, failed, released >>

Print_v1 == PrintCall("print_v1", "v1", v1, "print_v2")

Print_v2 == PrintCall("print_v2", "v2", v2, "create_device")

\* ---------------------------------------------------------- device session
Statuses == {CL_SUCCESS, CL_OTHER_ERROR}
DevStatuses == {CL_SUCCESS, CL_DEVICE_NOT_FOUND, CL_OTHER_ERROR}

NeedsCpuFallback_AnyError(gpuErr) == gpuErr < 0

\* create_device: the GPU result that makes it ask for a CPU device.
NeedsCpuFallback(gpuErr) == gpuErr = CL_DEVICE_NOT_FOUND

\* create_device: the value of its local err when `if (err < 0)` is reached.
DeviceErr(g, c) == IF NeedsCpuFallback(g) THEN c ELSE g

\* A step that took status st and exits the process when it is negative.
Step(step, st, next) ==
    /\ trace' = Append(trace, step)
    /\ failed' = IF st < 0 THEN failed \cup {step} ELSE failed
    /\ IF st < 0 THEN Die(step, EXIT_FAILURE_1) ELSE pc' = next /\ Live

CreateDevice ==
    /\ pc = "create_device"
    /\ \E p \in Statuses, g \in DevStatuses, c \in DevStatuses :
        /\ env' = [env EXCEPT !.platform = p, !.gpu = g, !.cpu = c]
        /\ Step("create_device", IF p < 0 THEN p ELSE DeviceErr(g, c), "create_context")
        /\ device_id' = IF p < 0 \/ DeviceErr(g, c) < 0 THEN device_id
                        ELSE IF NeedsCpuFallback(g) THEN "CPU" ELSE "GPU"
    /\ UNCHANGED << SZ, hostVars, err, created, bound, dV1, dV2, dOut, event,
                    prints, released >>

\* A clCreate* call of setup_openCL_device_context_queue_kernel, checked
\* through the function's local err.
CreateObject(step, obj, next) ==
    /\ pc = step
    /\ \E st \in Statuses :
        /\ Step(step, st, next)
        /\ created' = IF st < 0 THEN created ELSE created \cup {obj}
    /\ UNCHANGED << SZ, hostVars, err, device_id, bound, dV1, dV2, dOut, event,
                    env, prints, released >>

CreateContext == CreateObject("create_context", "context", "build_program")

BuildProgram_IgnoreMissingFile(fileOk, bufOk, srcSt, buildSt, logOk) ==
    /\ env' = [env EXCEPT !.file = IF fileOk THEN "open" ELSE "missing"]
    /\ err' = IF srcSt < 0 THEN srcSt ELSE buildSt
    /\ Step("build_program", IF srcSt < 0 THEN srcSt ELSE buildSt, "create_queue")
    /\ created' = IF srcSt < 0 THEN created ELSE created \cup {"program"}
    /\ UNCHANGED nullWrite

\* build_program(ctx, dev, filename) with the results of fopen, of the malloc
\* of the source buffer, of clCreateProgramWithSource and clBuildProgram, and
\* of the malloc of the build log.  Neither malloc is tested before the store
\* of the terminating '\0' through its result.
BuildProgram(fileOk, bufOk, srcSt, buildSt, logOk) ==
    /\ env' = [env EXCEPT !.file = IF fileOk THEN "open" ELSE "missing"]
    /\ IF ~fileOk
       THEN /\ trace' = Append(trace, "fopen")
            /\ failed' = failed \cup {"fopen"}
            /\ Die("fopen", EXIT_FAILURE_1)
            /\ UNCHANGED << err, created, nullWrite >>
       ELSE IF ~bufOk
       THEN /\ NullStore("build_program")
            /\ UNCHANGED << err, created, failed >>
       ELSE IF srcSt >= 0 /\ buildSt < 0 /\ ~logOk
       THEN /\ NullStore("build_program")
            /\ err' = buildSt
            /\ created' = created \cup {"program"}
            /\ failed' = failed \cup {"build_program"}
       ELSE /\ err' = IF srcSt < 0 THEN srcSt ELSE buildSt
            /\ Step("build_program", IF srcSt < 0 THEN srcSt ELSE buildSt, "create_queue")
            /\ created' = IF srcSt < 0 THEN created ELSE created \cup {"program"}
            /\ UNCHANGED nullWrite

Build ==
    /\ pc = "build_program"
    /\ \E fileOk \in BOOLEAN, bufOk \in BOOLEAN, srcSt \in Statuses,
          buildSt \in Statuses, logOk \in BOOLEAN :
        BuildProgram(fileOk, bufOk, srcSt, buildSt, logOk)
    /\ UNCHANGED << SZ, v1, v2, v_out, alloc, seed, device_id, bound, dV1, dV2,
                    dOut, event, prints, released >>

CreateQueue == CreateObject("create_queue", "queue", "create_kernel")

CreateKernel == CreateObject("create_kernel", "kernel", "create_buffers")

\* ------------------------------------------------------ buffers and kernel
ArgIdx == 0 .. 3
Buffers == {"bufV1", "bufV2", "bufV_out"}

\* clCreateBuffer(context, CL_MEM_READ_WRITE, SZ * sizeof(int), NULL, NULL):
\* a size of zero, or a negative SZ wrapped to size_t, is never served.
BufferCan(ok) == ok => SZ >= 1

\* setup_kernel_memory, first half: the three clCreateBuffer calls and the
\* NULL check.  A new buffer holds indeterminate values.
CreateBuffers ==
    /\ pc = "create_buffers"
    /\ \E ok \in [Buffers -> BOOLEAN], g \in Garbage :
        /\ \A b \in Buffers : BufferCan(ok[b])
        /\ created' = created \cup {b \in Buffers : ok[b]}
        /\ Step("create_buffers",
                IF \E b \in Buffers : ~ok[b] THEN CL_OTHER_ERROR ELSE CL_SUCCESS,
                "write_v1")
        /\ IF \A b \in Buffers : ok[b]
           THEN /\ dV1' = [i \in 1 .. SZ |-> g]
                /\ dV2' = [i \in 1 .. SZ |-> g]
                /\ dOut' = [i \in 1 .. SZ |-> g]
           ELSE UNCHANGED << dV1, dV2, dOut >>
    /\ UNCHANGED << SZ, hostVars, err, device_id, bound, event, env, prints,
                    released >>

\* A call whose status main ignores: the run goes on whatever it returned.
Unchecked(step, ok, next) ==
    /\ trace' = Append(trace, step)
    /\ failed' = IF ok THEN failed ELSE failed \cup {step}
    /\ pc' = next
    /\ Live

\* setup_kernel_memory, second half: blocking clEnqueueWriteBuffer of v1.
Write_v1 ==
    /\ pc = "write_v1"
    /\ \E ok \in BOOLEAN :
        /\ Unchecked("write_v1", ok, "write_v2")
        /\ dV1' = IF ok THEN v1 ELSE dV1
    /\ UNCHANGED << SZ, hostVars, err, device_id, created, bound, dV2, dOut,
                    event, env, prints, released >>

Write_v2 ==
    /\ pc = "write_v2"
    /\ \E ok \in BOOLEAN :
        /\ Unchecked("write_v2", ok, "copy_kernel_args")
        /\ dV2' = IF ok THEN v2 ELSE dV2
    /\ UNCHANGED << SZ, hostVars, err, device_id, created, bound, dV1, dOut,
                    event, env, prints, released >>

\* copy_kernel_args: four clSetKernelArg calls whose statuses are dropped,
\* then a test of the global err, last written by build_program.
CopyKernelArgs ==
    /\ pc = "copy_kernel_args"
    /\ \E set \in SUBSET ArgIdx :
        /\ bound' = set
        /\ trace' = Append(trace, "copy_kernel_args")
        /\ failed' = IF set = ArgIdx THEN failed ELSE failed \cup {"copy_kernel_args"}
        /\ IF err < 0 THEN Die("copy_kernel_args", EXIT_FAILURE_1)
           ELSE pc' = "start_timer" /\ Live
    /\ UNCHANGED << SZ, hostVars, err, device_id, created, dV1, dV2, dOut, event,
                    env, prints, released >>

\* A statement of main that touches no program state but its position.
Mark(step, next) ==
    /\ pc = step
    /\ trace' = Append(trace, step)
    /\ pc' = next
    /\ Live
    /\ UNCHANGED << SZ, hostVars, devVars, env, failed, prints, released >>

StartTimer == Mark("start_timer", "enqueue")

\* clEnqueueNDRangeKernel: refused while a kernel argument is unset.
Enqueue ==
    /\ pc = "enqueue"
    /\ \E ok \in BOOLEAN :
        /\ ok => bound = ArgIdx
        /\ Unchecked("enqueue", ok, "wait")
        /\ event' = ok
    /\ UNCHANGED << SZ, hostVars, err, device_id, created, bound, dV1, dV2, dOut,
                    env, prints, released >>

\* The kernel vector_add_ocl over SZ work-items.
VectorAddKernel(n, a, b, o) ==
    [i \in 1 .. Len(o) |-> IF i <= n THEN a[i] + b[i] ELSE o[i]]

\* clWaitForEvents(1, &event): fails on a NULL event or a failed execution;
\* when it succeeds the kernel has run to completion.
WaitForEvents ==
    /\ pc = "wait"
    /\ \E ok \in BOOLEAN :
        /\ ok => event
        /\ Unchecked("wait", ok, "read")
        /\ dOut' = IF ok THEN VectorAddKernel(SZ, dV1, dV2, dOut) ELSE dOut
    /\ UNCHANGED << SZ, hostVars, err, device_id, created, bound, dV1, dV2,
                    event, env, prints, released >>

ReadBufferSource_WrongBuffer == dV1

\* The device buffer main downloads into v_out.
ReadBufferSource == dOut

\* Blocking clEnqueueReadBuffer into v_out.
ReadBuffer ==
    /\ pc = "read"
    /\ \E ok \in BOOLEAN :
        /\ Unchecked("read", ok, "print_v_out")
        /\ v_out' = IF ok THEN ReadBufferSource ELSE v_out
    /\ UNCHANGED << SZ, v1, v2, alloc, seed, nullWrite, devVars, env, prints,
                    released >>

Print_v_out == PrintCall("print_v_out", "v_out", v_out, "stop_timer")

StopTimer == Mark("stop_timer", "print_time")

PrintTime == Mark("print_time", "free_memory")

FreeOrder_QueueFirst ==
    << "queue", "bufV1", "bufV2", "bufV_out", "kernel", "program", "context",
       "v1", "v2", "v_out" >>

\* free_memory: the releases, in program order.
FreeOrder ==
    << "bufV1", "bufV2", "bufV_out", "kernel", "queue", "program", "context",
       "v1", "v2", "v_out" >>

FreeMemory ==
    /\ pc = "free_memory"
    /\ released' = released \o FreeOrder
    /\ trace' = Append(trace, "free_memory")
    /\ pc' = "return"
    /\ Live
    /\ UNCHANGED << SZ, hostVars, devVars, env, failed, prints >>

\* return 0 from main.
Return ==
    /\ pc = "return"
    /\ pc' = "exited"
    /\ exitStatus' = EXIT_OK
    /\ trace' = Append(trace, "return")
    /\ UNCHANGED << SZ, hostVars, devVars, env, failed, prints, released, fatalAt >>

Next ==
    \/ Init_v1 \/ Init_v2 \/ Init_v_out
    \/ Print_v1 \/ Print_v2
    \/ CreateDevice \/ CreateContext \/ Build \/ CreateQueue \/ CreateKernel
    \/ CreateBuffers \/ Write_v1 \/ Write_v2
    \/ CopyKernelArgs
    \/ StartTimer \/ Enqueue \/ WaitForEvents \/ ReadBuffer
    \/ Print_v_out \/ StopTimer \/ PrintTime
    \/ FreeMemory \/ Return

Spec == Init /\ [][Next]_vars

\* ================================================================== claims
Has(step) == \E i \in 1 .. Len(trace) : trace[i] = step
Pos(step) == CHOOSE i \in 1 .. Len(trace) : trace[i] = step
Exited == pc = "exited"
DeviceObjects == Buffers \cup {"kernel", "queue", "program", "context"}
HostVectors == {"v1", "v2", "v_out"}
ElementwiseSum == [i \in 1 .. SZ |-> v1[i] + v2[i]]

\* C1: in a run of length n >= 1 in which every device step succeeded, the
\* vector printed after the download is the element-wise sum of the two
\* uploaded input vectors: v_out[i] = v1[i] + v2[i] for every i.
C1_OutputIsSum ==
    (Has("print_v_out") /\ failed = {} /\ SZ >= 1) =>
        /\ Len(v_out) = SZ
        /\ \A i \in 1 .. SZ : v_out[i] = v1[i] + v2[i]
        /\ prints[3].vec = "v_out"
        /\ prints[3].data = ElementwiseSum

C1_Witness ==
    /\ Exited /\ exitStatus = EXIT_OK /\ failed = {}
    /\ SZ > PrintLimit
    /\ prints[3].data = ElementwiseSum
    /\ \E i \in 1 .. SZ : v_out[i] >= RandRange

\* C2: every failing device step terminates the process at once with a
\* nonzero status; no run with a failed step prints the output vector or
\* the timing line or exits with status 0.
C2_EveryErrorFatal ==
    failed # {} =>
        /\ Exited
        /\ exitStatus # EXIT_OK
        /\ ~Has("print_v_out")
        /\ ~Has("print_time")

\* C3: a failing kernel-argument bind makes the process exit with status 1
\* and the kernel is never dispatched.
C3_BindFailureFatal ==
    "copy_kernel_args" \in failed =>
        /\ Exited
        /\ exitStatus = EXIT_FAILURE_1
        /\ ~Has("enqueue")

\* C4: the steps between the start and the stop timestamp are exactly the
\* kernel enqueue and the wait for its completion.
C4_TimerCoversOnlyDispatch ==
    Has("stop_timer") =>
        SubSeq(trace, Pos("start_timer") + 1, Pos("stop_timer") - 1)
            = << "enqueue", "wait" >>

\* Lifecycle states the run has really entered.
Lifecycle ==
    << "DeviceReady", "BuffersAllocated", "ArgumentsBound", "Dispatched",
       "Completed", "Released" >>
Entered(st) ==
    CASE st = "DeviceReady" -> "kernel" \in created
      [] st = "BuffersAllocated" -> Buffers \subseteq created
      [] st = "ArgumentsBound" -> Has("copy_kernel_args") /\ bound = ArgIdx
      [] st = "Dispatched" -> event
      [] st = "Completed" -> Has("wait") /\ "wait" \notin failed
      [] st = "Released" -> released # << >>

\* C5: lifecycle states are entered in order with none skipped; both inputs
\* are uploaded before the kernel is enqueued; a run that ends normally has
\* enqueued the kernel exactly once; the download happens after the kernel
\* completed and before v_out is printed.
C5_LifecycleOrder ==
    /\ \A k \in 2 .. Len(Lifecycle) : Entered(Lifecycle[k]) => Entered(Lifecycle[k - 1])
    /\ Has("enqueue") =>
          /\ Has("write_v1") /\ Has("write_v2")
          /\ {"write_v1", "write_v2"} \cap failed = {}
          /\ dV1 = v1 /\ dV2 = v2
    /\ exitStatus = EXIT_OK =>
          /\ Cardinality({i \in 1 .. Len(trace) : trace[i] = "enqueue"}) = 1
          /\ event
    /\ Has("read") => Entered("Completed")
    /\ Has("print_v_out") => Has("read") /\ Pos("read") < Pos("print_v_out")

\* C6: teardown releases the three buffers, kernel, queue, program, context
\* and the three host vectors in that order, each once; it is reached only
\* when all of them were created; a fatal exit releases nothing.
C6_Teardown ==
    /\ released # << >> =>
          /\ released = << "bufV1", "bufV2", "bufV_out", "kernel", "queue",
                           "program", "context", "v1", "v2", "v_out" >>
          /\ DeviceObjects \subseteq created
          /\ HostVectors \subseteq alloc
          /\ fatalAt = ""
    /\ fatalAt # "" => released = << >>
    /\ exitStatus = EXIT_OK => released # << >>

C6_Witness ==
    /\ Exited /\ exitStatus = EXIT_OK
    /\ Len(released) = 10
    /\ failed # {}

\* C7 as stated: when the kernel source cannot be opened the process exits
\* nonzero and no device object at all has been created.
C7_NoDeviceAllocation ==
    env.file = "missing" =>
        /\ Exited /\ exitStatus # EXIT_OK
        /\ created = {}

\* C7 amended: when the kernel source cannot be opened the process exits
\* with status 1; the device is selected and the context created by then,
\* but no program, queue, kernel or buffer is ever created and nothing is
\* released.
C7_OnlyContextCreated ==
    env.file = "missing" =>
        /\ Exited /\ exitStatus = EXIT_FAILURE_1 /\ fatalAt = "fopen"
        /\ created = {"context"}
        /\ device_id \in {"GPU", "CPU"}
        /\ dV1 = << >> /\ dV2 = << >> /\ dOut = << >>
        /\ released = << >>

C7_Witness == env.file = "missing" /\ Exited /\ "context" \in created

\* C8 as stated: any GPU discovery failure falls back to an existing CPU
\* device, and create_device exits only without a platform or without both
\* kinds of device.
C8_FallbackOnAnyFailure ==
    Has("create_device") =>
        /\ (env.platform = CL_SUCCESS /\ env.gpu < 0 /\ env.cpu = CL_SUCCESS) =>
              device_id = "CPU" /\ fatalAt # "create_device"
        /\ fatalAt = "create_device" =>
              env.platform < 0 \/ (env.gpu < 0 /\ env.cpu < 0)

\* C8 amended: create_device falls back to the CPU exactly when GPU
\* discovery returns CL_DEVICE_NOT_FOUND; it exits when there is no
\* platform, when GPU discovery fails with another status, or when the GPU
\* is not found and the CPU query fails.  After a fallback the run ends
\* with status 0 unless a later checked creation step fails.
C8_FallbackOnNotFound ==
    Has("create_device") =>
        /\ (env.platform = CL_SUCCESS /\ env.gpu = CL_DEVICE_NOT_FOUND
              /\ env.cpu = CL_SUCCESS) =>
              /\ device_id = "CPU"
              /\ fatalAt # "create_device"
              /\ Exited => \/ exitStatus = EXIT_OK
                           \/ fatalAt \in {"create_context", "fopen", "build_program",
                                           "create_queue", "create_kernel",
                                           "create_buffers"}
        /\ (env.platform = CL_SUCCESS /\ env.gpu = CL_SUCCESS) => device_id = "GPU"
        /\ fatalAt = "create_device" <=>
              \/ env.platform < 0
              \/ env.gpu \notin {CL_SUCCESS, CL_DEVICE_NOT_FOUND}
              \/ env.gpu = CL_DEVICE_NOT_FOUND /\ env.cpu < 0
        /\ fatalAt = "create_device" => exitStatus = EXIT_FAILURE_1

C8_Witness ==
    /\ env.gpu = CL_DEVICE_NOT_FOUND
    /\ device_id = "CPU"
    /\ Exited /\ exitStatus = EXIT_OK

\* C9: when malloc returns no memory for a vector of length n >= 1, init ends
\* the process with status 1 without storing through the vector and without
\* going on to device setup.
C9_AllocFailureFatal ==
    \A name \in HostVectors :
        (SZ >= 1 /\ Has("init_" \o name) /\ name \notin alloc) =>
            /\ Exited
            /\ exitStatus = EXIT_FAILURE_1
            /\ ~nullWrite
            /\ ~Has("create_device")

\* C10: print emits every element in index order when n <= 15; when n > 15
\* it emits indices 0..4, the ellipsis marker, then indices n-5..n-1, ten
\* elements in all; the output ends with the separator and no index outside
\* [0, n) is read.
C10_PrintShape ==
    \A k \in 1 .. Len(prints) :
        LET n == prints[k].size
            A == prints[k].data
            t == prints[k].toks
            ix == prints[k].idx
        IN  /\ n <= 15 =>
                /\ Len(t) = (IF n > 0 THEN n ELSE 0) + 1
                /\ \A j \in 1 .. n : t[j] = <<"e", A[j]>>
            /\ n > 15 =>
                /\ Len(t) = 12
                /\ \A j \in 1 .. 5 : t[j] = <<"e", A[j]>> /\ ix[j] = <<"e", j - 1>>
                /\ t[6] = <<"ellipsis", 0>>
                /\ \A j \in 1 .. 5 : t[6 + j] = <<"e", A[n - 5 + j]>>
                                     /\ ix[6 + j] = <<"e", n - 6 + j>>
                /\ Cardinality({j \in 1 .. Len(t) : t[j][1] = "e"}) = 10
            /\ t[Len(t)] = <<"sep", 0>>
            /\ \A j \in 1 .. Len(ix) : ix[j][1] = "e" => ix[j][2] \in 0 .. n - 1

C10_Witness ==
    /\ Len(prints) = 3
    /\ prints[3].size > PrintLimit
    /\ Len(prints[3].toks) = 12

====
